---- MODULE Spec2Model ----
(***************************************************************************)
(* State-machine model of the maze engine in src/maze/src/lib.rs:          *)
(* Maze::new / generate_random_map (randomised Kruskal over a union-find   *)
(* forest), move_player, neighbouring_tile_types, reveal_around_player and *)
(* the serialised view.                                                    *)
(***************************************************************************)
EXTENDS Integers, Sequences, FiniteSets, TLC

VARIABLES
    pc,           \* "idle" | "generating" | "aborted" | "ready"
    gen_size,     \* the size argument of the running Maze::new call
    gen_map,      \* generate_random_map: the working grid (MazeGenerationTile)
    neither_map,  \* generate_random_map: the wall candidates not yet iterated
    gen_map_alt,  \* the working grid of the same run with the union step reversed
    maze,         \* the Maze value (player, exit, size, map)
    visited,      \* history: the positions the player has occupied
    ret           \* what the last public call returned

vars == <<pc, gen_size, gen_map, neither_map, gen_map_alt, maze, visited, ret>>

\* Largest size argument handed to Maze::new.
MaxSize == 3

Sizes == 0..MaxSize

Directions == {"Up", "Down", "Left", "Right"}

Position(px, py) == [x |-> px, y |-> py]

\* ------------------------------------------------------------ generation

\* Variant of initial_gen_map that leaves the odd-odd positions undecided.
initial_gen_map_open_question(size) ==
    [k \in 0..(size * size - 1) |->
        LET j == k % size
            i == k \div size
        IN  [position  |-> Position(j, i),
             link      |-> Position(j, i),
             tile_type |-> IF j % 2 = 0 /\ i % 2 = 0 THEN "Open" ELSE "None"]]

\* Variant of initial_gen_map with the two pre-set types exchanged.
initial_gen_map_swapped(size) ==
    [k \in 0..(size * size - 1) |->
        LET j == k % size
            i == k \div size
        IN  [position  |-> Position(j, i),
             link      |-> Position(j, i),
             tile_type |-> IF j % 2 = 0 /\ i % 2 = 0 THEN "Blocked"
                           ELSE IF j % 2 # 0 /\ i % 2 # 0 THEN "Open"
                           ELSE "None"]]

\* gen_map as built by the nested loop: row-major, index size*i + j.
initial_gen_map(size) ==
    [k \in 0..(size * size - 1) |->
        LET j == k % size
            i == k \div size
        IN  [position  |-> Position(j, i),
             link      |-> Position(j, i),
             tile_type |-> IF j % 2 = 0 /\ i % 2 = 0 THEN "Open"
                           ELSE IF j % 2 # 0 /\ i % 2 # 0 THEN "Blocked"
                           ELSE "None"]]

\* The candidates: positions of the tiles whose tile_type is None.
initial_neither_map(gm) ==
    {gm[k].position : k \in {n \in DOMAIN gm : gm[n].tile_type = "None"}}

\* Variant of find that reads each link once and does not follow the chain.
find_one_link(size, map, p, q) ==
    <<map[size * p.y + p.x].link, map[size * q.y + q.x].link>>

\* Follows both link chains in lockstep until both positions are fixed points.
RECURSIVE find(_, _, _, _)
find(size, map, p, q) ==
    LET cell_p == map[size * p.y + p.x].link
        cell_q == map[size * q.y + q.x].link
    IN  IF p # cell_p \/ q # cell_q
        THEN find(size, map, cell_p, cell_q)
        ELSE <<cell_p, cell_q>>

\* Variant of first_neighbour that names the cell on the wrong side.
first_neighbour_same_side(pos) ==
    IF pos.y % 2 = 0 THEN Position(pos.x - 1, pos.y)
                     ELSE Position(pos.x, pos.y + 1)

\* The first position handed to find for the candidate pos.
first_neighbour(pos) ==
    IF pos.y % 2 = 0 THEN Position(pos.x + 1, pos.y)
                     ELSE Position(pos.x, pos.y - 1)

\* Variant of second_neighbour that tests the parity of x.
second_neighbour_by_x(pos) ==
    IF pos.x % 2 = 0 THEN Position(pos.x - 1, pos.y)
                     ELSE Position(pos.x, pos.y + 1)

\* The second position handed to find for the candidate pos.
second_neighbour(pos) ==
    IF pos.y % 2 = 0 THEN Position(pos.x - 1, pos.y)
                     ELSE Position(pos.x, pos.y + 1)

\* Variant of process_candidate that unites the components but leaves the
\* wall standing.
process_candidate_keeps_wall(size, gm, pos) ==
    LET roots == find(size, gm, first_neighbour(pos), second_neighbour(pos))
        p == roots[1]
        q == roots[2]
    IN  IF p # q
        THEN [gm EXCEPT ![size * pos.y + pos.x].tile_type = "Blocked",
                        ![size * p.y + p.x].link = q]
        ELSE [gm EXCEPT ![size * pos.y + pos.x].tile_type = "Blocked"]

\* Variant of process_candidate that links the neighbouring cell itself, not
\* its root.
process_candidate_links_cell(size, gm, pos) ==
    LET roots == find(size, gm, first_neighbour(pos), second_neighbour(pos))
        p == roots[1]
        q == roots[2]
        c == first_neighbour(pos)
    IN  IF p # q
        THEN [gm EXCEPT ![size * pos.y + pos.x].tile_type = "Open",
                        ![size * c.y + c.x].link = q]
        ELSE [gm EXCEPT ![size * pos.y + pos.x].tile_type = "Blocked"]

\* Variant of process_candidate that links each root to the other.
process_candidate_links_both(size, gm, pos) ==
    LET roots == find(size, gm, first_neighbour(pos), second_neighbour(pos))
        p == roots[1]
        q == roots[2]
    IN  IF p # q
        THEN [gm EXCEPT ![size * pos.y + pos.x].tile_type = "Open",
                        ![size * p.y + p.x].link = q,
                        ![size * q.y + q.x].link = p]
        ELSE [gm EXCEPT ![size * pos.y + pos.x].tile_type = "Blocked"]

\* One iteration of the loop over neither_map: decide the wall at pos.
process_candidate(size, gm, pos) ==
    LET roots == find(size, gm, first_neighbour(pos), second_neighbour(pos))
        p == roots[1]
        q == roots[2]
    IN  IF p # q
        THEN [gm EXCEPT ![size * pos.y + pos.x].tile_type = "Open",
                        ![size * p.y + p.x].link = q]
        ELSE [gm EXCEPT ![size * pos.y + pos.x].tile_type = "Blocked"]

\* The loop body with the union step the other way round: the root of the q
\* side is linked to the root of the p side.
process_candidate_reversed(size, gm, pos) ==
    LET roots == find(size, gm, first_neighbour(pos), second_neighbour(pos))
        p == roots[1]
        q == roots[2]
    IN  IF p # q
        THEN [gm EXCEPT ![size * pos.y + pos.x].tile_type = "Open",
                        ![size * q.y + q.x].link = p]
        ELSE [gm EXCEPT ![size * pos.y + pos.x].tile_type = "Blocked"]

\* The iteration for pos panics: a neighbour coordinate underflows usize
\* (checked arithmetic) or the index handed to the working grid is out of range.
candidate_panics(size, gm, pos) ==
    \E n \in {first_neighbour(pos), second_neighbour(pos)} :
        n.x < 0 \/ n.y < 0 \/ size * n.y + n.x \notin DOMAIN gm

\* tile_type.unwrap() panics on a tile left undecided.
flatten_panics(gm) == \E k \in DOMAIN gm : gm[k].tile_type = "None"

\* Variant of flatten that hands the tiles over Revealed.
flatten_revealed(gm) ==
    [k \in DOMAIN gm |-> [tile_type |-> gm[k].tile_type, visibility |-> "Revealed"]]

\* The final map: every tile with its decided type, Hidden.
flatten(gm) ==
    [k \in DOMAIN gm |-> [tile_type |-> gm[k].tile_type, visibility |-> "Hidden"]]

\* ------------------------------------------------------------ maze state

to_index(m, x, y) == m.size * y + x

\* Variant of reveal that stores a fresh revealed Open tile.
reveal_opens(m, x, y) ==
    [m EXCEPT !.map[m.size * y + x] = [tile_type |-> "Open", visibility |-> "Revealed"]]

\* Variant of reveal that flips the visibility instead of setting it.
reveal_toggles(m, x, y) ==
    [m EXCEPT !.map[m.size * y + x].visibility =
                  IF @ = "Revealed" THEN "Hidden" ELSE "Revealed"]

reveal(m, x, y) ==
    [m EXCEPT !.map[to_index(m, x, y)].visibility = "Revealed"]

tile_at(m, x, y) == m.map[to_index(m, x, y)]

\* Variant of tile_type_at that reads the visibility-masked view.
tile_type_at_masked(m, x, y) ==
    IF x < 0 \/ y < 0 \/ x >= m.size \/ y >= m.size
    THEN "Blocked"
    ELSE IF m.map[m.size * y + x].visibility = "Revealed"
         THEN m.map[m.size * y + x].tile_type
         ELSE "Blocked"

tile_type_at(m, x, y) ==
    IF x < 0 \/ y < 0 \/ x >= m.size \/ y >= m.size
    THEN "Blocked"
    ELSE tile_at(m, x, y).tile_type

\* Variant of reveal_around_player whose last bound is off by one.
reveal_around_player_short(m) ==
    LET m0 == reveal(m, m.player.x, m.player.y)
        m1 == IF m0.player.x > 0 THEN reveal(m0, m0.player.x - 1, m0.player.y) ELSE m0
        m2 == IF m1.player.y > 0 THEN reveal(m1, m1.player.x, m1.player.y - 1) ELSE m1
        m3 == IF m2.player.x < m2.size - 1 THEN reveal(m2, m2.player.x + 1, m2.player.y) ELSE m2
        m4 == IF m3.player.y < m3.size - 2 THEN reveal(m3, m3.player.x, m3.player.y + 1) ELSE m3
    IN  m4

reveal_around_player(m) ==
    LET m0 == reveal(m, m.player.x, m.player.y)
        m1 == IF m0.player.x > 0 THEN reveal(m0, m0.player.x - 1, m0.player.y) ELSE m0
        m2 == IF m1.player.y > 0 THEN reveal(m1, m1.player.x, m1.player.y - 1) ELSE m1
        m3 == IF m2.player.x < m2.size - 1 THEN reveal(m2, m2.player.x + 1, m2.player.y) ELSE m2
        m4 == IF m3.player.y < m3.size - 1 THEN reveal(m3, m3.player.x, m3.player.y + 1) ELSE m3
    IN  m4

\* Variant of move_target with the vertical axis upside down.
move_target_flipped(m, direction) ==
    CASE direction = "Up"    -> Position(m.player.x, m.player.y + 1)
      [] direction = "Down"  -> Position(m.player.x, m.player.y - 1)
      [] direction = "Left"  -> Position(m.player.x - 1, m.player.y)
      [] direction = "Right" -> Position(m.player.x + 1, m.player.y)

\* The target coordinate of a move, in signed arithmetic.
move_target(m, direction) ==
    CASE direction = "Up"    -> Position(m.player.x, m.player.y - 1)
      [] direction = "Down"  -> Position(m.player.x, m.player.y + 1)
      [] direction = "Left"  -> Position(m.player.x - 1, m.player.y)
      [] direction = "Right" -> Position(m.player.x + 1, m.player.y)

\* Variant of internal_move_player that assigns the player before the test.
internal_move_player_moves_first(m, direction) ==
    LET t == move_target(m, direction)
    IN  IF t.x < 0 \/ t.y < 0 \/ t.x >= m.size \/ t.y >= m.size
        THEN [maze |-> m, result |-> "DirectionBlocked"]
        ELSE IF tile_at(m, t.x, t.y).tile_type = "Blocked"
        THEN [maze |-> [m EXCEPT !.player = t], result |-> "DirectionBlocked"]
        ELSE [maze   |-> reveal_around_player([m EXCEPT !.player = t]),
              result |-> "Ok"]

\* Variant of internal_move_player that tests the bounds only.
internal_move_player_through_walls(m, direction) ==
    LET t == move_target(m, direction)
    IN  IF t.x < 0 \/ t.y < 0 \/ t.x >= m.size \/ t.y >= m.size
        THEN [maze |-> m, result |-> "DirectionBlocked"]
        ELSE [maze   |-> reveal_around_player([m EXCEPT !.player = t]),
              result |-> "Ok"]

\* internal_move_player: the maze after the call and the value returned.
internal_move_player(m, direction) ==
    LET t == move_target(m, direction)
    IN  IF t.x < 0 \/ t.y < 0 \/ t.x >= m.size \/ t.y >= m.size
           \/ tile_at(m, t.x, t.y).tile_type = "Blocked"
        THEN [maze |-> m, result |-> "DirectionBlocked"]
        ELSE [maze   |-> reveal_around_player([m EXCEPT !.player = t]),
              result |-> "Ok"]

\* Variant of neighbouring_tile_types with the horizontal offsets exchanged.
neighbouring_tile_types_mirrored(m) ==
    [left  |-> tile_type_at(m, m.player.x + 1, m.player.y),
     right |-> tile_type_at(m, m.player.x - 1, m.player.y),
     up    |-> tile_type_at(m, m.player.x, m.player.y - 1),
     down  |-> tile_type_at(m, m.player.x, m.player.y + 1)]

neighbouring_tile_types(m) ==
    [left  |-> tile_type_at(m, m.player.x - 1, m.player.y),
     right |-> tile_type_at(m, m.player.x + 1, m.player.y),
     up    |-> tile_type_at(m, m.player.x, m.player.y - 1),
     down  |-> tile_type_at(m, m.player.x, m.player.y + 1)]

\* ------------------------------------------------------------ serialisation

\* Variant of serialize_tile that does not mask Hidden tiles.
serialize_tile_unmasked(tile) ==
    IF tile.tile_type = "Open" THEN "open" ELSE "blocked"

serialize_tile(tile) ==
    IF tile.visibility = "Revealed"
    THEN (IF tile.tile_type = "Open" THEN "open" ELSE "blocked")
    ELSE "hidden"

\* Variant of serialize_row that tests the exit before the player.
serialize_row_exit_first(row_index, player, exit, size, map) ==
    [c \in 1..size |->
        LET x == c - 1
        IN  IF exit.x = x /\ exit.y = row_index THEN "exit"
            ELSE IF player.x = x /\ player.y = row_index THEN "player"
            ELSE serialize_tile(map[row_index * size + x])]

\* Row: the labels of the slice elements = map[y*size .. y*size + size).
serialize_row(row_index, player, exit, size, map) ==
    [c \in 1..size |->
        LET x == c - 1
        IN  IF player.x = x /\ player.y = row_index THEN "player"
            ELSE IF exit.x = x /\ exit.y = row_index THEN "exit"
            ELSE serialize_tile(map[row_index * size + x])]

serialize_maze(m) ==
    [r \in 1..m.size |-> serialize_row(r - 1, m.player, m.exit, m.size, m.map)]

\* ------------------------------------------------------------ the machine

NoMaze == [player |-> Position(0, 0), exit |-> Position(0, 0), size |-> 0, map |-> <<>>]

NoRet == [op |-> "none"]

Init ==
    /\ pc = "idle"
    /\ gen_size = 0
    /\ gen_map = <<>>
    /\ neither_map = {}
    /\ gen_map_alt = <<>>
    /\ maze = NoMaze
    /\ visited = {}
    /\ ret = NoRet

\* Variant of NewBegin without the assertion on the size.
NewBegin_unasserted(size) ==
    /\ pc = "idle"
    /\ gen_size' = size
    /\ pc' = "generating"
    /\ gen_map' = initial_gen_map(size)
    /\ gen_map_alt' = initial_gen_map(size)
    /\ neither_map' = initial_neither_map(initial_gen_map(size))
    /\ UNCHANGED <<maze, visited, ret>>

\* Maze::new(size) enters generate_random_map: the assertion, the working
\* grid and the shuffled candidate list.  The shuffle fixes an arbitrary
\* order; neither_map holds the candidates the loop has not reached yet and
\* the loop takes them in any order.
NewBegin(size) ==
    /\ pc = "idle"
    /\ gen_size' = size
    /\ IF size % 2 # 1
       THEN /\ pc' = "aborted"
            /\ UNCHANGED <<gen_map, neither_map, gen_map_alt>>
       ELSE /\ pc' = "generating"
            /\ gen_map' = initial_gen_map(size)
            /\ gen_map_alt' = initial_gen_map(size)
            /\ neither_map' = initial_neither_map(initial_gen_map(size))
    /\ UNCHANGED <<maze, visited, ret>>

\* One iteration of `for i in neither_map`; a panic ends the call.  The same
\* candidate is processed in gen_map_alt with the union step reversed.
GenerateStep(pos) ==
    /\ pc = "generating"
    /\ pos \in neither_map
    /\ IF candidate_panics(gen_size, gen_map, pos)
       THEN /\ pc' = "aborted"
            /\ UNCHANGED <<gen_map, neither_map, gen_map_alt>>
       ELSE /\ gen_map' = process_candidate(gen_size, gen_map, pos)
            /\ gen_map_alt' = process_candidate_reversed(gen_size, gen_map_alt, pos)
            /\ neither_map' = neither_map \ {pos}
            /\ UNCHANGED pc
    /\ UNCHANGED <<gen_size, maze, visited, ret>>

\* The loop is over: generate_random_map returns the flattened map and
\* Maze::new builds the Maze and reveals around the player.
NewFinish ==
    /\ pc = "generating"
    /\ neither_map = {}
    /\ IF flatten_panics(gen_map)
       THEN /\ pc' = "aborted"
            /\ UNCHANGED <<gen_map, gen_map_alt, maze, visited, ret>>
       ELSE /\ maze' = reveal_around_player(
                           [player |-> Position(0, 0),
                            exit   |-> Position(gen_size - 1, gen_size - 1),
                            size   |-> gen_size,
                            map    |-> flatten(gen_map)])
            /\ pc' = "ready"
            /\ gen_map' = <<>>
            /\ gen_map_alt' = <<>>
            /\ visited' = {Position(0, 0)}
            /\ ret' = [op |-> "new"]
    /\ UNCHANGED <<gen_size, neither_map>>

MovePlayer(direction) ==
    /\ pc = "ready"
    /\ LET r == internal_move_player(maze, direction)
       IN  /\ maze' = r.maze
           /\ visited' = visited \cup {r.maze.player}
           /\ ret' = [op |-> "move_player", direction |-> direction, result |-> r.result]
    /\ UNCHANGED <<pc, gen_size, gen_map, neither_map, gen_map_alt>>

NeighbouringTileTypes ==
    /\ pc = "ready"
    /\ ret' = [op |-> "neighbouring_tile_types", result |-> neighbouring_tile_types(maze)]
    /\ UNCHANGED <<pc, gen_size, gen_map, neither_map, gen_map_alt, maze, visited>>

Serialize ==
    /\ pc = "ready"
    /\ ret' = [op |-> "serialize", result |-> serialize_maze(maze)]
    /\ UNCHANGED <<pc, gen_size, gen_map, neither_map, gen_map_alt, maze, visited>>

Next ==
    \/ \E size \in Sizes : NewBegin(size)
    \/ \E pos \in neither_map : GenerateStep(pos)
    \/ NewFinish
    \/ \E direction \in Directions : MovePlayer(direction)
    \/ NeighbouringTileTypes
    \/ Serialize

Spec == Init /\ [][Next]_vars

\* ------------------------------------------------------------ vocabulary of the properties

Ready == pc = "ready"

GridPositions(size) == {Position(x, y) : x \in 0..(size - 1), y \in 0..(size - 1)}

InGrid(size, p) == p.x >= 0 /\ p.y >= 0 /\ p.x < size /\ p.y < size

IsCell(p) == p.x % 2 = 0 /\ p.y % 2 = 0

IsWall(p) == (p.x % 2 = 0) # (p.y % 2 = 0)

Cells(size) == {p \in GridPositions(size) : IsCell(p)}

Adjacent(p, q) ==
    \/ p.x = q.x /\ (p.y = q.y + 1 \/ q.y = p.y + 1)
    \/ p.y = q.y /\ (p.x = q.x + 1 \/ q.x = p.x + 1)

TileOf(m, p) == m.map[m.size * p.y + p.x]

OpenTiles(m) == {p \in GridPositions(m.size) : TileOf(m, p).tile_type = "Open"}

RevealedTiles(m) == {p \in GridPositions(m.size) : TileOf(m, p).visibility = "Revealed"}

HiddenTiles(m) == GridPositions(m.size) \ RevealedTiles(m)

\* Least set containing seen and closed under Adjacent within allowed.
RECURSIVE Closure(_, _)
Closure(seen, allowed) ==
    LET more == {q \in allowed \ seen : \E p \in seen : Adjacent(p, q)}
    IN  IF more = {} THEN seen ELSE Closure(seen \cup more, allowed)

\* The tiles reachable from p by stepping through orthogonally adjacent Open tiles.
OpenReach(m, p) == Closure({p} \cap OpenTiles(m), OpenTiles(m))

OpenEdges(m) == {{p, q} : p, q \in OpenTiles(m)} \ {{p} : p \in OpenTiles(m)}

AdjacentOpenPairs(m) == {e \in OpenEdges(m) : \E p, q \in e : Adjacent(p, q)}

OpenComponents(m) == {OpenReach(m, p) : p \in OpenTiles(m)}

\* ------------------------------------------------------------ generation: the perfect maze

\* C1: in the map generate_random_map returns, for every odd size and every
\* order of the candidates, all cells (both coordinates even) are mutually
\* connected by steps through orthogonally adjacent Open tiles.
C1_CellsConnected ==
    Ready => \A c, d \in Cells(maze.size) : d \in OpenReach(maze, c)

\* A maze of several cells has been generated.
C1_Witness ==
    Ready /\ maze.size >= 3 /\ ret.op = "new"

\* C2: the Open tiles of the generated map contain no cycle: the number of
\* wall positions marked Open is the number of cells minus one,
\* ((size+1)/2)^2 - 1, and the graph of adjacent Open tiles has as many edges
\* as it has tiles minus components.
C2_OpenTilesAcyclic ==
    Ready =>
        /\ Cardinality({p \in OpenTiles(maze) : IsWall(p)})
               = ((maze.size + 1) \div 2) * ((maze.size + 1) \div 2) - 1
        /\ Cardinality(AdjacentOpenPairs(maze))
               = Cardinality(OpenTiles(maze)) - Cardinality(OpenComponents(maze))

\* A generated maze in which a candidate was left Blocked to avoid a cycle.
C2_Witness ==
    /\ Ready
    /\ maze.size >= 3
    /\ \E p \in GridPositions(maze.size) : IsWall(p) /\ TileOf(maze, p).tile_type = "Blocked"

\* ------------------------------------------------------------ movement

\* The target the contract names for a move from p.
ContractTarget(p, direction) ==
    CASE direction = "Up"    -> Position(p.x, p.y - 1)
      [] direction = "Down"  -> Position(p.x, p.y + 1)
      [] direction = "Left"  -> Position(p.x - 1, p.y)
      [] direction = "Right" -> Position(p.x + 1, p.y)

\* The step just taken is a move_player call.
MoveReturned == Ready /\ ret'.op = "move_player"

\* C3: move_player(direction) returns Ok and sets player to the target
\* (Up: y-1, Down: y+1, Left: x-1, Right: x+1) exactly when the target lies
\* inside the grid and its tile is Open; in every other case (outside the
\* grid, a 1x1 maze included, or a Blocked tile) it returns DirectionBlocked.
C3_MoveOkIffTargetOpen ==
    [][MoveReturned =>
        LET t      == ContractTarget(maze.player, ret'.direction)
            usable == InGrid(maze.size, t) /\ TileOf(maze, t).tile_type = "Open"
        IN  /\ ret'.result = "Ok" <=> usable
            /\ ret'.result = "Ok" => maze'.player = t
            /\ ~usable => ret'.result = "DirectionBlocked"]_vars

\* A move has succeeded and the player has left the start.
C3_Witness ==
    /\ Ready
    /\ ret.op = "move_player"
    /\ ret.result = "Ok"
    /\ maze.player # Position(0, 0)

\* C4: a move_player call that returns DirectionBlocked leaves the player,
\* every tile's visibility and type, the exit and the serialised view as they
\* were before the call.
C4_BlockedMoveChangesNothing ==
    [][MoveReturned /\ ret'.result = "DirectionBlocked" =>
        /\ maze'.player = maze.player
        /\ maze'.exit = maze.exit
        /\ maze'.map = maze.map
        /\ maze' = maze
        /\ serialize_maze(maze') = serialize_maze(maze)]_vars

\* A move into a Blocked tile inside the grid has been rejected.
C4_Witness ==
    /\ Ready
    /\ ret.op = "move_player"
    /\ ret.result = "DirectionBlocked"
    /\ InGrid(maze.size, ContractTarget(maze.player, ret.direction))

\* C5: in every state reached from Maze::new(size), size odd, by move_player
\* calls the player is inside the grid and the player and the exit both index
\* an Open tile.
C5_PlayerAndExitOnOpenTiles ==
    Ready =>
        /\ InGrid(maze.size, maze.player)
        /\ InGrid(maze.size, maze.exit)
        /\ TileOf(maze, maze.player).tile_type = "Open"
        /\ TileOf(maze, maze.exit).tile_type = "Open"

\* The player has moved onto a wall position that generation opened.
C5_Witness ==
    Ready /\ IsWall(maze.player) /\ ret.op = "move_player"

\* The positions a player standing at p reaches by one successful move_player.
MoveSuccessors(m, p) ==
    {internal_move_player([m EXCEPT !.player = p], d).maze.player :
        d \in {e \in Directions :
                  internal_move_player([m EXCEPT !.player = p], e).result = "Ok"}}

\* The positions the player reaches by finitely many successful moves.
RECURSIVE MoveReach(_, _)
MoveReach(m, seen) ==
    LET more == UNION {MoveSuccessors(m, p) : p \in seen} \ seen
    IN  IF more = {} THEN seen ELSE MoveReach(m, seen \cup more)

\* C6: from every state reached from Maze::new(size) by move_player calls
\* some finite sequence of successful moves ends with the player at the exit
\* (size-1, size-1).
C6_ExitAlwaysReachable ==
    Ready =>
        /\ maze.exit = Position(maze.size - 1, maze.size - 1)
        /\ maze.exit \in MoveReach(maze, {maze.player})

\* The player is away from both the start and the exit.
C6_Witness ==
    /\ Ready
    /\ maze.size >= 3
    /\ maze.player # Position(0, 0)
    /\ maze.player # maze.exit

\* ------------------------------------------------------------ visibility

\* C7: a tile Revealed in one state is Revealed in every later state, whatever
\* move_player calls follow, and revealing a Revealed tile changes nothing.
C7_RevealIsMonotonic ==
    [][Ready =>
        /\ RevealedTiles(maze) \subseteq RevealedTiles(maze')
        /\ \A p \in RevealedTiles(maze) : reveal(maze, p.x, p.y) = maze]_vars

\* After a successful move more is Revealed than the start's neighbourhood.
C7_Witness ==
    /\ Ready
    /\ ret.op = "move_player"
    /\ ret.result = "Ok"
    /\ Cardinality(RevealedTiles(maze)) > 3
    /\ HiddenTiles(maze) # {}

\* ------------------------------------------------------------ serialised view

\* The label the contract gives position (x, y).
ContractLabel(m, x, y) ==
    IF Position(x, y) = m.player THEN "player"
    ELSE IF Position(x, y) = m.exit THEN "exit"
    ELSE IF TileOf(m, Position(x, y)).visibility = "Revealed"
         THEN (IF TileOf(m, Position(x, y)).tile_type = "Open" THEN "open" ELSE "blocked")
         ELSE "hidden"

\* C8: serialisation yields exactly size rows of exactly size labels; the
\* label at row y, column x is "player" at the player's position (also on the
\* exit), else "exit" at the exit, else "open" or "blocked" by the true type
\* of a Revealed tile, else "hidden".
C8_SerializedLabels ==
    (Ready /\ ret.op = "serialize") =>
        /\ Len(ret.result) = maze.size
        /\ \A y \in 0..(maze.size - 1) :
              /\ Len(ret.result[y + 1]) = maze.size
              /\ \A x \in 0..(maze.size - 1) :
                    ret.result[y + 1][x + 1] = ContractLabel(maze, x, y)

\* A maze of several tiles was serialised with the player on the exit.
C8_Witness ==
    /\ Ready
    /\ ret.op = "serialize"
    /\ maze.size >= 3
    /\ maze.player = maze.exit

\* The maze m with the types of the tiles in flipped changed.
WithFlippedTypes(m, flipped) ==
    [m EXCEPT !.map =
        [k \in DOMAIN m.map |->
            IF Position(k % m.size, k \div m.size) \in flipped
            THEN [m.map[k] EXCEPT !.tile_type = IF @ = "Open" THEN "Blocked" ELSE "Open"]
            ELSE m.map[k]]]

\* C9: two mazes with the same size, player, exit and visibilities and the
\* same types on all Revealed tiles serialise alike, whatever the types of
\* their Hidden tiles.
C9_HiddenTypesNotObservable ==
    Ready =>
        \A flipped \in SUBSET HiddenTiles(maze) :
            serialize_maze(WithFlippedTypes(maze, flipped)) = serialize_maze(maze)

\* Hidden tiles of both types exist, besides the exit.
C9_Witness ==
    /\ Ready
    /\ \E p, q \in HiddenTiles(maze) \ {maze.exit} :
          /\ TileOf(maze, p).tile_type = "Open"
          /\ TileOf(maze, q).tile_type = "Blocked"

\* ------------------------------------------------------------ neighbour query

\* What the contract reports for position (x, y).
ContractTypeAt(m, x, y) ==
    IF x < 0 \/ y < 0 \/ x >= m.size \/ y >= m.size
    THEN "Blocked"
    ELSE m.map[m.size * y + x].tile_type

\* C10: neighbouring_tile_types reports for left (x-1), right (x+1), up (y-1)
\* and down (y+1) of the player Blocked outside the grid and the tile's true
\* type inside it, whatever the tile's visibility, and changes neither the
\* player nor any visibility.  The player's own neighbours are always
\* Revealed, so the query is also evaluated with the player placed at every
\* position of the grid, where Hidden neighbours occur.
C10_NeighbourTypes ==
    [][(Ready /\ ret'.op = "neighbouring_tile_types") =>
        /\ ret'.result.left  = ContractTypeAt(maze, maze.player.x - 1, maze.player.y)
        /\ ret'.result.right = ContractTypeAt(maze, maze.player.x + 1, maze.player.y)
        /\ ret'.result.up    = ContractTypeAt(maze, maze.player.x, maze.player.y - 1)
        /\ ret'.result.down  = ContractTypeAt(maze, maze.player.x, maze.player.y + 1)
        /\ \A p \in GridPositions(maze.size) :
              neighbouring_tile_types([maze EXCEPT !.player = p])
                  = [left  |-> ContractTypeAt(maze, p.x - 1, p.y),
                     right |-> ContractTypeAt(maze, p.x + 1, p.y),
                     up    |-> ContractTypeAt(maze, p.x, p.y - 1),
                     down  |-> ContractTypeAt(maze, p.x, p.y + 1)]
        /\ maze'.player = maze.player
        /\ RevealedTiles(maze') = RevealedTiles(maze)
        /\ maze' = maze]_vars

\* The query answered with an Open and a Blocked neighbour inside the grid
\* while a Hidden Open tile exists elsewhere.
C10_Witness ==
    /\ Ready
    /\ ret.op = "neighbouring_tile_types"
    /\ ret.result.right = "Open"
    /\ ret.result.down = "Blocked"
    /\ maze.player.y < maze.size - 1
    /\ \E p \in HiddenTiles(maze) : TileOf(maze, p).tile_type = "Open"

\* ------------------------------------------------------------ construction

\* C11: Maze::new with an even size, 0 included, aborts inside generation:
\* no Maze value exists, no player or exit has been placed, no tile has been
\* revealed, no working grid has been built, and nothing follows the abort.
C11_EvenSizeAborts ==
    (pc # "idle" /\ gen_size % 2 = 0) =>
        /\ pc = "aborted"
        /\ maze = NoMaze
        /\ RevealedTiles(maze) = {}
        /\ gen_map = <<>>
        /\ gen_map_alt = <<>>
        /\ neither_map = {}
        /\ ret = NoRet
        /\ ~ ENABLED Next

\* Maze::new(0) has aborted.
C11_Witness ==
    pc = "aborted" /\ gen_size = 0

\* C12: for every odd size a freshly generated maze has exactly size*size
\* tiles, the tiles at (0,0) and (size-1,size-1) are Open, the player starts
\* at (0,0) and the exit is at (size-1,size-1).
C12_FreshMaze ==
    (Ready /\ ret.op = "new") =>
        /\ maze.size = gen_size
        /\ DOMAIN maze.map = 0..(maze.size * maze.size - 1)
        /\ Cardinality(DOMAIN maze.map) = maze.size * maze.size
        /\ maze.map[to_index(maze, 0, 0)].tile_type = "Open"
        /\ maze.map[to_index(maze, maze.size - 1, maze.size - 1)].tile_type = "Open"
        /\ maze.player = Position(0, 0)
        /\ maze.exit = Position(maze.size - 1, maze.size - 1)

\* A fresh maze whose two corners are different tiles.
C12_Witness ==
    Ready /\ ret.op = "new" /\ maze.size = 3 /\ maze.exit # maze.player

\* The positions orthogonally adjacent to p inside the grid.
NeighboursInGrid(size, p) == {q \in GridPositions(size) : Adjacent(p, q)}

\* C13: in every state reached from Maze::new(size) by move_player calls the
\* player's own tile and each orthogonally adjacent tile inside the grid are
\* Revealed, right after construction and after every successful move.
C13_NeighbourhoodRevealed ==
    Ready =>
        ({maze.player} \cup NeighboursInGrid(maze.size, maze.player))
            \subseteq RevealedTiles(maze)

\* A successful move has brought the player to a tile on the border, with
\* three neighbours inside the grid.
C13_Witness ==
    /\ Ready
    /\ ret.op = "move_player"
    /\ ret.result = "Ok"
    /\ maze.size >= 3
    /\ Cardinality(NeighboursInGrid(maze.size, maze.player)) = 3

\* The type of every tile of a map.
TypesOf(map) == [k \in DOMAIN map |-> map[k].tile_type]

\* C14: no move_player call, successful or blocked, changes the type of a
\* tile, the size or the exit: the types stay those generation decided and
\* the exit stays (size-1, size-1); a successful move changes only the player
\* and visibilities.
C14_MovesKeepTypesSizeExit ==
    [][/\ (pc = "generating" /\ pc' = "ready") =>
              /\ TypesOf(maze'.map) = TypesOf(gen_map)
              /\ maze'.exit = Position(maze'.size - 1, maze'.size - 1)
       /\ Ready =>
              /\ TypesOf(maze'.map) = TypesOf(maze.map)
              /\ maze'.size = maze.size
              /\ maze'.exit = maze.exit
              /\ maze'.exit = Position(maze.size - 1, maze.size - 1)]_vars

\* A successful move has revealed tiles of both types.
C14_Witness ==
    /\ Ready
    /\ ret.op = "move_player"
    /\ ret.result = "Ok"
    /\ \E p, q \in RevealedTiles(maze) :
          TileOf(maze, p).tile_type = "Open" /\ TileOf(maze, q).tile_type = "Blocked"

\* ------------------------------------------------------------ generation: the union-find forest

Generating == pc = "generating"

\* The working grid read as a map: the types decided so far.
GenView(size, gm) ==
    [player |-> Position(0, 0), exit |-> Position(size - 1, size - 1),
     size |-> size, map |-> flatten(gm)]

\* The position reached from p by following link at most fuel times.
RECURSIVE FollowLinks(_, _, _, _)
FollowLinks(size, gm, p, fuel) ==
    IF fuel = 0 \/ gm[size * p.y + p.x].link = p
    THEN p
    ELSE FollowLinks(size, gm, gm[size * p.y + p.x].link, fuel - 1)

\* The end of p's link chain, were it as long as the grid is large.
RootOf(size, gm, p) == FollowLinks(size, gm, p, Cardinality(DOMAIN gm))

\* The cells a wall position separates.
SeparatedCells(size, pos) == {c \in Cells(size) : Adjacent(pos, c)}

\* The candidate the step just taken has processed.
Processed == CHOOSE pos \in neither_map : pos \notin neither_map'

\* C15: at every step of the loop two cells have the same union-find root
\* exactly when they are connected through the walls opened so far, and the
\* loop marks a candidate Open exactly when the two cells it separates are
\* not yet connected, Blocked exactly when they are.
C15_RootsMatchConnectivity ==
    [][Generating =>
        /\ \A c, d \in Cells(gen_size) :
              RootOf(gen_size, gen_map, c) = RootOf(gen_size, gen_map, d)
                  <=> d \in OpenReach(GenView(gen_size, gen_map), c)
        /\ neither_map' # neither_map =>
              LET connected ==
                      \A c, d \in SeparatedCells(gen_size, Processed) :
                          d \in OpenReach(GenView(gen_size, gen_map), c)
                  decided == gen_map'[gen_size * Processed.y + Processed.x].tile_type
              IN  /\ Cardinality(SeparatedCells(gen_size, Processed)) = 2
                  /\ connected => decided = "Blocked"
                  /\ ~connected => decided = "Open"]_vars

\* The loop has left a candidate Blocked and has a chain of two links.
C15_Witness ==
    /\ Generating
    /\ \E k \in DOMAIN gen_map :
          gen_map[k].position \notin neither_map
          /\ IsWall(gen_map[k].position)
          /\ gen_map[k].tile_type = "Blocked"
    /\ \E c \in Cells(gen_size) :
          LET up == gen_map[gen_size * c.y + c.x].link
          IN  up # c /\ gen_map[gen_size * up.y + up.x].link # up

LinkOf(size, gm, p) == gm[size * p.y + p.x].link

\* C16: at every step of generation the links form a forest: following link
\* from any position stays inside the grid and reaches, in at most as many
\* steps as there are tiles, a position that is its own link, so no cycle
\* other than the self-links exists; and find, called for any candidate still
\* to come, terminates with the roots of the two neighbours.
C16_LinksFormForest ==
    Generating =>
        /\ \A p \in GridPositions(gen_size) :
              /\ LinkOf(gen_size, gen_map, p) \in GridPositions(gen_size)
              /\ LinkOf(gen_size, gen_map, RootOf(gen_size, gen_map, p))
                     = RootOf(gen_size, gen_map, p)
        /\ \A pos \in neither_map :
              find(gen_size, gen_map, first_neighbour(pos), second_neighbour(pos))
                  = <<RootOf(gen_size, gen_map, first_neighbour(pos)),
                      RootOf(gen_size, gen_map, second_neighbour(pos))>>

\* A candidate is still to come whose neighbour lies two links below its root.
C16_Witness ==
    /\ Generating
    /\ \E pos \in neither_map :
          LET c  == first_neighbour(pos)
              up == LinkOf(gen_size, gen_map, c)
          IN  up # c /\ LinkOf(gen_size, gen_map, up) # up

IsPillar(p) == p.x % 2 = 1 /\ p.y % 2 = 1

\* C17: in every generated map, whatever the order of the candidates, each
\* tile with both coordinates even is Open and each tile with both coordinates
\* odd is Blocked; only positions with exactly one odd coordinate are ever
\* candidates, so only they can differ between two generations.
C17_CellsOpenPillarsBlocked ==
    /\ Generating =>
          /\ \A k \in DOMAIN gen_map :
                /\ IsCell(gen_map[k].position) => gen_map[k].tile_type = "Open"
                /\ IsPillar(gen_map[k].position) => gen_map[k].tile_type = "Blocked"
          /\ \A pos \in neither_map : IsWall(pos)
    /\ Ready =>
          \A p \in GridPositions(maze.size) :
              /\ IsCell(p) => TileOf(maze, p).tile_type = "Open"
              /\ IsPillar(p) => TileOf(maze, p).tile_type = "Blocked"

\* The player has revealed a tile with both coordinates odd.
C17_Witness ==
    /\ Ready
    /\ \E p \in RevealedTiles(maze) : IsPillar(p)

\* C18: for every odd size, 1 included, and every order of the candidates
\* generation runs to completion without aborting: the two neighbours computed
\* for a candidate are cells inside the grid (no coordinate below zero), a
\* wall is undecided exactly as long as it is still to be processed, a step
\* is always possible until the maze is built, and the flattened map holds no
\* undecided tile.
C18_GenerationCompletes ==
    (pc # "idle" /\ gen_size % 2 = 1) =>
        /\ pc # "aborted"
        /\ Generating =>
              /\ \A pos \in neither_map :
                    /\ first_neighbour(pos) \in Cells(gen_size)
                    /\ second_neighbour(pos) \in Cells(gen_size)
                    /\ first_neighbour(pos) # second_neighbour(pos)
                    /\ ~ candidate_panics(gen_size, gen_map, pos)
              /\ \A k \in DOMAIN gen_map :
                    gen_map[k].tile_type = "None" <=> gen_map[k].position \in neither_map
              /\ neither_map = {} => ~ flatten_panics(gen_map)
              /\ ENABLED Next
        /\ Ready =>
              \A k \in DOMAIN maze.map : maze.map[k].tile_type \in {"Open", "Blocked"}

\* The maze of size 1 has been built: no candidate, the player on the exit.
C18_Witness ==
    /\ Ready
    /\ maze.size = 1
    /\ maze.player = maze.exit
    /\ neither_map = {}

\* C19: for the same size and the same order of the candidates, linking the
\* root of the p side to the root of the q side (gen_map) and linking the root
\* of the q side to the root of the p side (gen_map_alt) decide the same type
\* for every tile, at every step and when the loop ends.
C19_UnionDirectionIrrelevant ==
    Generating =>
        /\ DOMAIN gen_map_alt = DOMAIN gen_map
        /\ \A k \in DOMAIN gen_map : gen_map_alt[k].tile_type = gen_map[k].tile_type

\* The loop has ended and the two directions have built different forests.
C19_Witness ==
    /\ Generating
    /\ neither_map = {}
    /\ \E k \in DOMAIN gen_map : gen_map_alt[k].link # gen_map[k].link

\* ------------------------------------------------------------ the query and the move agree

\* The field of NeighbouringTileTypes that answers for a direction.
FieldOf(direction) ==
    CASE direction = "Up"    -> "up"
      [] direction = "Down"  -> "down"
      [] direction = "Left"  -> "left"
      [] direction = "Right" -> "right"

\* C20: in every maze state and for each of the four directions
\* move_player(direction) succeeds exactly when neighbouring_tile_types,
\* evaluated in that state, reports Open for that direction, the grid boundary
\* included.
C20_QueryAgreesWithMove ==
    Ready =>
        \A d \in Directions :
            internal_move_player(maze, d).result = "Ok"
                <=> neighbouring_tile_types(maze)[FieldOf(d)] = "Open"

\* The player stands on the exit of a maze of several tiles: two directions
\* leave the grid and one is open.
C20_Witness ==
    /\ Ready
    /\ maze.size >= 3
    /\ maze.player = maze.exit
    /\ ret.op = "move_player"
    /\ ret.result = "Ok"

\* ------------------------------------------------------------ nothing revealed unseen

\* C21: in every state reached from Maze::new(size) by move_player calls every
\* Revealed tile is a position the player has occupied or is orthogonally
\* adjacent to one; every other tile is still Hidden.  The player's position is
\* among the occupied ones and each of them is an Open tile of the grid.
C21_RevealedOnlyWhereSeen ==
    Ready =>
        /\ maze.player \in visited
        /\ visited \subseteq OpenTiles(maze)
        /\ \A p \in RevealedTiles(maze) :
              p \in visited \/ \E v \in visited : Adjacent(p, v)
        /\ \A p \in GridPositions(maze.size) :
              (p \notin visited /\ ~ \E v \in visited : Adjacent(p, v))
                  => TileOf(maze, p).visibility = "Hidden"

\* The player has occupied three positions and tiles are still Hidden.
C21_Witness ==
    /\ Ready
    /\ Cardinality(visited) >= 3
    /\ HiddenTiles(maze) # {}

====
